---- MODULE Spec2Model ----
(***************************************************************************)
(* A model of RCFJ (rewriting compressor for JSON): src/src/RCFJ.py and    *)
(* src/LiteralOptimizers.py.  Python 2 semantics are kept where they       *)
(* decide behaviour: negative list indices, stable sorts, int/long, the    *)
(* equality True == 1, and unordered dict iteration.                       *)
(*                                                                         *)
(* A text (Python str/unicode) is a sequence of one-character strings, so  *)
(* that lengths, concatenation and parsing are all computed.               *)
(***************************************************************************)
EXTENDS Integers, Sequences, FiniteSets, TLC

VARIABLES
  pc,             \* position in the program being run
  structure,      \* the input value tree (RCFJ.py:406)
  writer_options, \* the dict of get_default_options(), possibly overridden
  cli,            \* options.optimization_symbolization / optimization_records
  proposals,      \* the local list `proposals`
  assigned,       \* the local list `assigned` of assign_proposals_greedy
  idx,            \* the loop index i of the enumerate() loops
  g,              \* the generator object g = VariableGenerator(2)
  result,         \* the text written, or the value returned
  arg             \* the arguments of the literal optimizer under test

vars == <<pc, structure, writer_options, cli, proposals, assigned, idx, g,
          result, arg>>

---------------------------------------------------------------------------
(* Sequences helpers *)

RECURSIVE Flatten(_)
\* ''.join(list of texts)
Flatten(ss) == IF ss = <<>> THEN <<>> ELSE Head(ss) \o Flatten(Tail(ss))

RECURSIVE Join(_, _)
\* sep.join(list of texts)
Join(sep, ss) ==
  IF ss = <<>> THEN <<>>
  ELSE IF Len(ss) = 1 THEN ss[1]
  ELSE ss[1] \o sep \o Join(sep, Tail(ss))

\* seq[k] with Python's 0-based index, a negative k counting from the end
PyIndex(seq, k) == IF k < 0 THEN seq[Len(seq) + k + 1] ELSE seq[k + 1]

SetMax(S) == CHOOSE x \in S : \A y \in S : y <= x

RECURSIVE SortedDesc(_, _, _)
\* list.sort(key=..., reverse=True): a stable sort, so the elements of equal
\* key keep their order; keyOf[p] is the key of element p, keysLeft the keys
\* not yet placed.
SortedDesc(seq, keyOf, keysLeft) ==
  IF keysLeft = {} THEN <<>>
  ELSE LET k == SetMax(keysLeft)
       IN  SelectSeq(seq, LAMBDA p : keyOf[p] = k)
             \o SortedDesc(seq, keyOf, keysLeft \ {k})

---------------------------------------------------------------------------
(* RCFJ.py: identifiers *)

VARIABLE_START ==
  <<"a","b","c","d","e","f","g","h","i","j","k","l","m","n","o","p","q","r",
    "s","t","u","v","w","x","y","z","A","B","C","D","E","F","G","H","I","J",
    "K","L","M","N","O","P","Q","R","S","T","U","V","W","X","Y","Z","_","$">>

VARIABLE_MID == VARIABLE_START \o <<"0","1","2","3","4","5","6","7","8","9">>

keywords == {
  <<"f","a","l","s","e">>, <<"d","e","b","u","g","g","e","r">>,
  <<"s","y","n","c","h","r","o","n","i","z","e","d">>, <<"i","n","t">>,
  <<"a","b","s","t","r","a","c","t">>, <<"f","l","o","a","t">>,
  <<"p","r","i","v","a","t","e">>, <<"s","e","l","f">>, <<"c","h","a","r">>,
  <<"i","n","t","e","r","f","a","c","e">>, <<"b","o","o","l","e","a","n">>,
  <<"e","x","p","o","r","t">>, <<"i","n">>, <<"n","u","l","l">>, <<"i","f">>,
  <<"t","r","u","e">>, <<"c","o","n","s","t">>, <<"f","o","r">>,
  <<"w","i","t","h">>, <<"t","o","p">>, <<"N","a","N">>,
  <<"w","h","i","l","e">>, <<"l","o","n","g">>, <<"t","h","r","o","w">>,
  <<"f","i","n","a","l","l","y">>, <<"p","r","o","t","e","c","t","e","d">>,
  <<"e","x","t","e","n","d","s">>,
  <<"i","m","p","l","e","m","e","n","t","s">>, <<"v","a","r">>,
  <<"i","m","p","o","r","t">>, <<"n","a","t","i","v","e">>,
  <<"f","i","n","a","l">>, <<"l","o","c","a","t","i","o","n">>,
  <<"f","u","n","c","t","i","o","n">>, <<"d","o">>,
  <<"r","e","t","u","r","n">>, <<"g","o","t","o">>, <<"v","o","i","d">>,
  <<"e","n","u","m">>, <<"e","l","s","e">>, <<"b","r","e","a","k">>,
  <<"t","r","a","n","s","i","e","n","t">>, <<"w","i","n","d","o","w">>,
  <<"n","e","w">>, <<"c","a","t","c","h">>,
  <<"i","n","s","t","a","n","c","e","o","f">>, <<"b","y","t","e">>,
  <<"s","u","p","e","r">>, <<"c","l","a","s","s">>,
  <<"v","o","l","a","t","i","l","e">>, <<"c","a","s","e">>,
  <<"s","h","o","r","t">>, <<"u","n","d","e","f","i","n","e","d">>,
  <<"p","a","c","k","a","g","e">>, <<"d","e","f","a","u","l","t">>,
  <<"d","o","u","b","l","e">>, <<"p","u","b","l","i","c">>, <<"t","r","y">>,
  <<"t","h","i","s">>, <<"s","w","i","t","c","h">>,
  <<"c","o","n","t","i","n","u","e">>, <<"t","y","p","e","o","f">>,
  <<"s","t","a","t","i","c">>, <<"t","h","r","o","w","s">>,
  <<"d","e","l","e","t","e">> }

\* The generator object made by VariableGenerator(length), before its first
\* next(): state = [0]*length; state[0] = -1
VariableGenerator(length) ==
  [length |-> length,
   state  |-> [k \in 1..length |-> IF k = 1 THEN -1 ELSE 0]]

RECURSIVE Carry(_, _)
\* The inner while loop (i from length-1 down to 0) on the 0-based list
\* `state`; returned = TRUE is the `return` that ends the generator.
Carry(state, i) ==
  IF i < 0 THEN [state |-> state, returned |-> FALSE]
  ELSE LET maxsize == IF i = 0 THEN Len(VARIABLE_START) ELSE Len(VARIABLE_MID)
       IN  IF state[i + 1] >= maxsize /\ i # 0
             THEN Carry([state EXCEPT ![i] = @ + 1, ![i + 1] = 0], i - 1)
           ELSE IF state[i + 1] >= maxsize /\ i = 0
             THEN [state |-> state, returned |-> TRUE]
           ELSE Carry(state, i - 1)

\* ''.join(s): VARIABLE_START[state[0]] then VARIABLE_MID[state[i]]
NameOf(state) ==
  [k \in 1..Len(state) |->
     IF k = 1 THEN PyIndex(VARIABLE_START, state[k])
     ELSE PyIndex(VARIABLE_MID, state[k])]

RECURSIVE GenNext(_)
\* One next() on a generator object: the body of `while True` up to the next
\* yield.  stop = TRUE is StopIteration.
GenNext(gen) ==
  LET n  == gen.length
      s1 == [gen.state EXCEPT ![n] = @ + 1]
      c  == Carry(s1, n - 1)
      as_name == NameOf(c.state)
  IN  IF c.returned
        THEN [gen |-> [gen EXCEPT !.state = c.state], stop |-> TRUE,
              name |-> <<>>]
      ELSE IF as_name \in {x \in keywords : Len(x) = n}
        THEN GenNext([gen EXCEPT !.state = c.state])
      ELSE [gen |-> [gen EXCEPT !.state = c.state], stop |-> FALSE,
            name |-> as_name]

---------------------------------------------------------------------------
(* Characters and Python integers *)

\* The characters of code points 32 to 126, in order (the grave accent, 96,
\* is held by a name: no text of the model contains it)
ASCII ==
  <<" ","!","\"","#","$","%","&","'","(",")","*","+",",","-",".","/","0",
      "1","2","3","4","5","6","7","8","9",":",";","<","=",">","?","@","A",
      "B","C","D","E","F","G","H","I","J","K","L","M","N","O","P","Q","R",
      "S","T","U","V","W","X","Y","Z","[","\\","]","^","_","grave","a","b","c",
      "d","e","f","g","h","i","j","k","l","m","n","o","p","q","r","s","t",
      "u","v","w","x","y","z","{","|","}","~">>

\* ord(c) for the characters the model uses
Ord(c) ==
  IF c = "\t" THEN 9 ELSE IF c = "\n" THEN 10 ELSE IF c = "\r" THEN 13
  ELSE 31 + (CHOOSE k \in DOMAIN ASCII : ASCII[k] = c)

\* a < b for two unicode strings: by code point at the first difference, a
\* proper prefix first
TextLess(a, b) ==
  LET n    == IF Len(a) < Len(b) THEN Len(a) ELSE Len(b)
      diff == {k \in 1..n : a[k] # b[k]}
      d    == CHOOSE k \in diff : \A j \in diff : k <= j
  IN  IF diff = {} THEN Len(a) < Len(b) ELSE Ord(a[d]) < Ord(b[d])

DigitChars == <<"0","1","2","3","4","5","6","7","8","9">>
HexChars == DigitChars \o <<"a","b","c","d","e","f">>

\* A Python integer is a sign and the decimal digits of its magnitude, most
\* significant first, without leading zeros (zero is <<0>>), so that values
\* beyond the model checker's own integers are computed exactly.
PyInt(neg, digits) == [neg |-> neg, digits |-> digits]

RECURSIVE NatDigits(_)
NatDigits(n) == IF n < 10 THEN <<n>> ELSE Append(NatDigits(n \div 10), n % 10)

IntOf(n) == IF n < 0 THEN PyInt(TRUE, NatDigits(-n)) ELSE PyInt(FALSE, NatDigits(n))

IsZero(i) == i.digits = <<0>>

RECURSIVE StripZeros(_)
StripZeros(ds) ==
  IF Len(ds) > 1 /\ Head(ds) = 0 THEN StripZeros(Tail(ds)) ELSE ds

\* magnitude a < magnitude b
DigitsLess(a, b) ==
  LET diff == {k \in DOMAIN a : a[k] # b[k]}
      d    == CHOOSE k \in diff : \A j \in diff : k <= j
  IN  IF Len(a) # Len(b) THEN Len(a) < Len(b)
      ELSE IF diff = {} THEN FALSE
      ELSE a[d] < b[d]

\* sys.maxint of a 64-bit CPython 2: 2**63 - 1.  An integer outside
\* -maxint-1 .. maxint has the type long, not int.
maxint == <<9,2,2,3,3,7,2,0,3,6,8,5,4,7,7,5,8,0,7>>
maxintPlus1 == <<9,2,2,3,3,7,2,0,3,6,8,5,4,7,7,5,8,0,8>>

IsLong(i) ==
  IF i.neg THEN DigitsLess(maxintPlus1, i.digits)
  ELSE DigitsLess(maxint, i.digits)

RECURSIVE DivMod(_, _, _, _)
\* Long division of the digits ds by the small number d: quotient digits q so
\* far and running remainder r
DivMod(ds, d, q, r) ==
  IF ds = <<>> THEN [q |-> StripZeros(IF q = <<>> THEN <<0>> ELSE q), r |-> r]
  ELSE LET cur == r * 10 + Head(ds)
       IN  DivMod(Tail(ds), d, Append(q, cur \div d), cur % d)

RECURSIVE ToBase16(_)
\* the base-16 digits of a magnitude, most significant first
ToBase16(ds) ==
  LET dm == DivMod(ds, 16, <<>>, 0)
  IN  IF dm.q = <<0>> THEN <<dm.r>> ELSE Append(ToBase16(dm.q), dm.r)

\* '%d' % i
FormatD(i) ==
  (IF i.neg THEN <<"-">> ELSE <<>>)
    \o [k \in 1..Len(i.digits) |-> DigitChars[i.digits[k] + 1]]

\* hex(i) of Python 2: a long ends in 'L'
hex(i) ==
  LET h == ToBase16(i.digits)
  IN  (IF i.neg THEN <<"-">> ELSE <<>>) \o <<"0", "x">>
        \o [k \in 1..Len(h) |-> HexChars[h[k] + 1]]
        \o (IF IsLong(i) THEN <<"L">> ELSE <<>>)

---------------------------------------------------------------------------
(* LiteralOptimizers.py *)

\* i % power == 0 for power = 10**e (Python's % takes the sign of power, so a
\* negative multiple gives 0 too)
DivisibleByPower(i, e) ==
  \/ IsZero(i)
  \/ /\ Len(i.digits) > e
     /\ \A k \in (Len(i.digits) - e + 1)..Len(i.digits) : i.digits[k] = 0

RECURSIVE GrowPower(_, _)
\* while i % power == 0: power *= 10, on the exponent e of power = 10**e
GrowPower(i, e) == IF DivisibleByPower(i, e) THEN GrowPower(i, e + 1) ELSE e

\* i/power for a power = 10**e that divides i
DivideByPower(i, e) == PyInt(i.neg, SubSeq(i.digits, 1, Len(i.digits) - e))

optimal_int(i, allowHex) ==
  LET plain  == FormatD(i)
      normal ==
        IF DivisibleByPower(i, 3) /\ ~ IsZero(i)
          THEN LET e == GrowPower(i, 3) - 1   \* power /= 10
               IN  FormatD(DivideByPower(i, e)) \o <<"e">>
                     \o FormatD(IntOf(e))     \* int(math.log10(power))
        ELSE plain
  IN  IF allowHex /\ Len(hex(i)) < Len(normal) THEN hex(i) ELSE normal

\* lines 84-88 with the two digits exchanged
optimal_boolean_Exchanged(b, allowBooleanNumbers) ==
  IF allowBooleanNumbers
    THEN (IF b THEN <<"0">> ELSE <<"1">>)
  ELSE (IF b THEN <<"t","r","u","e">> ELSE <<"f","a","l","s","e">>)

optimal_boolean(b, allowBooleanNumbers) ==
  IF allowBooleanNumbers
    THEN (IF b THEN <<"1">> ELSE <<"0">>)
  ELSE (IF b THEN <<"t","r","u","e">> ELSE <<"f","a","l","s","e">>)

optimal_null(s) == <<"n","u","l","l">>

\* json.dumps of one character of a string (ensure_ascii); the model's
\* strings hold printable ASCII and these control characters only
EscapeChar(c) ==
  CASE c = "\"" -> <<"\\", "\"">>
    [] c = "\\" -> <<"\\", "\\">>
    [] c = "\n" -> <<"\\", "n">>
    [] c = "\r" -> <<"\\", "r">>
    [] c = "\t" -> <<"\\", "t">>
    [] OTHER -> <<c>>

\* json.dumps(s)
optimal_string(s) ==
  <<"\"">> \o Flatten([k \in 1..Len(s) |-> EscapeChar(s[k])]) \o <<"\"">>

---------------------------------------------------------------------------
(* Values, options and exceptions *)

\* The value tree json.load builds, and JavascriptExpression objects.  A dict
\* holds its keys in the order its iteration yields them; a
\* JavascriptExpression is an object with an identity.
PyNone == [tag |-> "None"]
PyBool(b) == [tag |-> "bool", b |-> b]
PyNumber(i) == [tag |-> "int", i |-> i]
PyStr(s) == [tag |-> "unicode", s |-> s]
PyList(items) == [tag |-> "list", items |-> items]
PyDict(keys, vals) == [tag |-> "dict", keys |-> keys, vals |-> vals]
PyTuple(items) == [tag |-> "tuple", items |-> items]
JavascriptExpression(id, val) ==
  [tag |-> "JavascriptExpression", id |-> id, val |-> val]

\* A call returns a value or leaves by an exception.
Ok(v) == [exc |-> "none", val |-> v]
Raise(e) == [exc |-> e, val |-> <<>>]

\* the first exception among the results rs, or the list of their values
Gather(rs) ==
  IF \E k \in DOMAIN rs : rs[k].exc # "none"
    THEN Raise(rs[CHOOSE k \in DOMAIN rs :
                    /\ rs[k].exc # "none"
                    /\ \A j \in 1..(k - 1) : rs[j].exc = "none"].exc)
  ELSE Ok([k \in DOMAIN rs |-> rs[k].val])

get_default_options ==
  [none |-> FALSE, keysAreStrings |-> TRUE, allowHex |-> FALSE,
   allowBooleanNumbers |-> FALSE]

\* options = None
NoneOptions ==
  [none |-> TRUE, keysAreStrings |-> TRUE, allowHex |-> FALSE,
   allowBooleanNumbers |-> FALSE]

\* the numeric value of a bool or an int (True is 1, False is 0)
IsNumeric(v) == v.tag \in {"bool", "int"}
NumberOf(v) ==
  IF v.tag = "bool" THEN (IF v.b THEN IntOf(1) ELSE IntOf(0)) ELSE v.i

\* a == b between two nodes, one of them a scalar: numbers by value whatever
\* their type, strings by content, objects by identity
PyEq(a, b) ==
  IF IsNumeric(a) /\ IsNumeric(b) THEN NumberOf(a) = NumberOf(b)
  ELSE a.tag = b.tag /\ a = b

\* LiteralOptimizers.optimal (no float reaches it: the trees hold none)
optimal(struct, options) ==
  CASE struct.tag = "bool" ->
         IF options.none THEN Raise("TypeError")
         ELSE Ok(optimal_boolean(struct.b, options.allowBooleanNumbers))
    [] struct.tag = "int" /\ ~ IsLong(struct.i) ->
         IF options.none THEN Raise("TypeError")
         ELSE Ok(optimal_int(struct.i, options.allowHex))
    [] struct.tag = "unicode" -> Ok(optimal_string(struct.s))
    [] struct.tag = "None" -> Ok(optimal_null(struct))
    [] OTHER -> Raise("IncontrovertiblyInconvertible")

---------------------------------------------------------------------------
(* RCFJ.py: proposals and their greedy assignment *)

NoVariable == <<>>   \* self.variable = None

\* Proposal.__init__ and its subclasses': a proposal object.  savings is the
\* closure savings_func, tabulated at the variable lengths the program
\* evaluates it at (1, 2, and 3 in __repr__).
Proposal(kind, savings_func, foreword, value, keys) ==
  [kind |-> kind, savings |-> savings_func, foreword |-> foreword,
   value |-> value, keys |-> keys, variable |-> NoVariable]

\* Proposal.assign
assign(proposal, variable) == [proposal EXCEPT !.variable = variable]

\* proposals.sort(key=lambda x:x.savings(n), reverse=True)
SortBySavings(ps, n) ==
  SortedDesc(ps, [p \in {ps[k] : k \in DOMAIN ps} |-> p.savings[n]],
             {ps[k].savings[n] : k \in DOMAIN ps})

\* The frame of a call of assign_proposals_greedy: its locals and where it is.
AssignEntry(ps) ==
  [pc |-> "assign", proposals |-> ps, assigned |-> <<>>, idx |-> 0,
   g |-> VariableGenerator(1)]

\* lines 356-358: assigned = []; proposals.sort(by savings(1), descending)
AssignBegin(f) ==
  [f EXCEPT !.pc = "phase1", !.assigned = <<>>, !.idx = 0,
            !.proposals = SortBySavings(f.proposals, 1)]

\* proposals[:len(VARIABLE_START)], the list the first loop walks
Phase1Slice(f) ==
  SubSeq(f.proposals, 1,
         IF Len(f.proposals) < Len(VARIABLE_START) THEN Len(f.proposals)
         ELSE Len(VARIABLE_START))

\* line 363 with the break taken only below zero
Phase1ContinuesAtZero(f) ==
  /\ f.idx < Len(Phase1Slice(f))
  /\ ~ (Phase1Slice(f)[f.idx + 1].savings[1] < 0)

\* the first loop has another element and does not break on it (line 363)
Phase1Continues(f) ==
  /\ f.idx < Len(Phase1Slice(f))
  /\ ~ (Phase1Slice(f)[f.idx + 1].savings[1] <= 0)

\* lines 365-366: one iteration of the first loop
Phase1Body(f) ==
  LET proposal == Phase1Slice(f)[f.idx + 1]
  IN  [f EXCEPT !.assigned =
                   Append(@, assign(proposal, <<PyIndex(VARIABLE_START, f.idx)>>)),
                !.idx = @ + 1]

\* lines 367-371: drop the assigned prefix, make the generator, sort again
Phase1Exit(f) ==
  LET rest == SubSeq(f.proposals, Len(f.assigned) + 1, Len(f.proposals))
  IN  [f EXCEPT !.pc = "phase2", !.idx = 0, !.g = VariableGenerator(2),
                !.proposals = SortBySavings(rest, 2)]

\* the second loop has another element and does not break on it (line 373)
Phase2Continues(f) ==
  /\ f.idx < Len(f.proposals)
  /\ ~ (f.proposals[f.idx + 1].savings[2] <= 0)

\* lines 375-376: one iteration of the second loop; g.next() raising
\* StopIteration leaves the function by that exception
Phase2Body(f) ==
  LET n == GenNext(f.g)
  IN  IF n.stop
        THEN [f EXCEPT !.pc = "raised", !.g = n.gen]
      ELSE [f EXCEPT !.g = n.gen, !.idx = @ + 1,
                     !.assigned =
                        Append(@, assign(f.proposals[f.idx + 1], n.name))]

\* line 379: return assigned
Phase2Exit(f) == [f EXCEPT !.pc = "returned"]

\* One step of assign_proposals_greedy
AssignStep(f) ==
  CASE f.pc = "assign" -> AssignBegin(f)
    [] f.pc = "phase1" -> IF Phase1Continues(f) THEN Phase1Body(f)
                          ELSE Phase1Exit(f)
    [] f.pc = "phase2" -> IF Phase2Continues(f) THEN Phase2Body(f)
                          ELSE Phase2Exit(f)
    [] OTHER -> f

RECURSIVE RunAssign(_, _)
\* The frame after n more steps of the call (a frame that has returned or
\* raised takes no further step).  The steps are composed in halves so that
\* a long list does not nest the evaluation thousands deep.
RunAssign(f, n) ==
  IF n = 0 THEN f
  ELSE IF n = 1 THEN AssignStep(f)
  ELSE LET half == RunAssign(f, n \div 2)
       IN  IF half.pc \in {"returned", "raised"} THEN half
           ELSE RunAssign(half, n - (n \div 2))

\* The call run to its end: pc is "returned" (assigned is the value returned)
\* or "raised" (StopIteration).  The sort is one step, and each loop takes at
\* most one step per element and one to leave.
assign_proposals_greedy(ps) == RunAssign(AssignEntry(ps), 2 * Len(ps) + 3)

---------------------------------------------------------------------------
(* RCFJ.py: proposal generation *)

RECURSIVE Explore(_, _)
\* The breadth-first walk both generators make: explore is the queue, and the
\* result lists the nodes the walk hands to its counting branch, in order.
\* dicts = TRUE is generate_record_proposals (dict nodes are counted, scalars
\* ignored), dicts = FALSE is generate_symbolized_literal_proposals (every
\* node that is no list and no dict is counted).
Explore(explore, dicts) ==
  IF explore = <<>> THEN <<>>
  ELSE LET node == Head(explore)
       IN  IF node.tag = "list"
             THEN Explore(Tail(explore) \o node.items, dicts)
           ELSE IF node.tag = "dict"
             THEN (IF dicts THEN <<node>> ELSE <<>>)
                    \o Explore(Tail(explore) \o node.vals, dicts)
           ELSE (IF dicts THEN <<>> ELSE <<node>>)
                  \o Explore(Tail(explore), dicts)

RECURSIVE Count(_, _)
\* frequency[node] = frequency.get(node,0) + 1 for each node in turn.  The
\* dict is a list of entries in insertion order; an equal key already there
\* is kept and only its count changes.
Count(nodes, frequency) ==
  IF nodes = <<>> THEN frequency
  ELSE LET node == Head(nodes)
           hit  == {k \in DOMAIN frequency : PyEq(frequency[k].key, node)}
       IN  IF hit = {}
             THEN Count(Tail(nodes),
                        Append(frequency, [key |-> node, count |-> 1]))
           ELSE Count(Tail(nodes),
                      [frequency EXCEPT ![CHOOSE k \in hit : TRUE].count = @ + 1])

\* The orders in which `for k in frequency` may walk a dict of n keys
IterationOrders(n) ==
  {o \in [1..n -> 1..n] : \A j, k \in 1..n : o[j] = o[k] => j = k}

\* lines 210-213 with the one-time cost of the declaration left out
saved_literal_NoInitCost(literal_cost, occur, init_cost) ==
  [varlength \in 1..3 |-> (literal_cost * occur) - (varlength * occur)]

\* saved(literal_cost, occur, init_cost), lines 210-213
saved_literal(literal_cost, occur, init_cost) ==
  [varlength \in 1..3 |->
     (literal_cost * occur) - (varlength * occur + init_cost + varlength)]

SymbolizedLiteralProposal(save, foreword, value) ==
  Proposal("SymbolizedLiteralProposal", save, foreword, value, <<>>)

\* the frequency table of generate_symbolized_literal_proposals
LiteralFrequency(struct) == Count(Explore(<<struct>>, FALSE), <<>>)

\* generate_symbolized_literal_proposals(struct, options), the dict walked in
\* the order `order`
generate_symbolized_literal_proposals(struct, options, order) ==
  LET frequency == LiteralFrequency(struct)
      best == Gather([n \in DOMAIN order |->
                        optimal(frequency[order[n]].key, options)])
      made == [n \in DOMAIN order |->
                 SymbolizedLiteralProposal(
                   saved_literal(Len(best.val[n]), frequency[order[n]].count,
                                 2 + Len(best.val[n])),
                   <<"%", "s", "=">> \o best.val[n],
                   frequency[order[n]].key)]
  IN  IF best.exc # "none" THEN Raise(best.exc)
      ELSE Ok(SelectSeq(made, LAMBDA proposal : proposal.savings[1] > 0))

RECURSIVE SortTexts(_)
\* keylist.sort() on a list of distinct strings
SortTexts(ks) ==
  IF ks = <<>> THEN <<>>
  ELSE LET m == CHOOSE k \in DOMAIN ks :
                  \A j \in DOMAIN ks : j = k \/ TextLess(ks[k], ks[j])
       IN  <<ks[m]>> \o SortTexts(SubSeq(ks, 1, m - 1) \o SubSeq(ks, m + 1, Len(ks)))

\* lines 253-256 with the cost of the function definition left out
saved_record_NoForeword(occur, keyset_size, keyset_len, foreword_len) ==
  [varlength \in 1..3 |->
     occur * (2 + keyset_size + 2 * keyset_len)
       - (varlength + occur * (2 + varlength + keyset_len))]

\* saved(occur, keyset_size, keyset_len, foreword_len), lines 253-256
saved_record(occur, keyset_size, keyset_len, foreword_len) ==
  [varlength \in 1..3 |->
     occur * (2 + keyset_size + 2 * keyset_len)
       - (foreword_len + varlength + occur * (2 + varlength + keyset_len))]

RecordProposal(save, foreword, keys) ==
  Proposal("RecordProposal", save, foreword, PyNone, keys)

RECURSIVE TakeNames(_, _, _)
\* lines 261-271: i more argument names, from generators of growing length
TakeNames(generator, i, arguments) ==
  IF i = 0 THEN arguments
  ELSE LET n == GenNext(generator)
       IN  IF n.stop
             THEN TakeNames(VariableGenerator(generator.length + 1), i, arguments)
           ELSE TakeNames(n.gen, i - 1, Append(arguments, n.name))

RECURSIVE SumLen(_)
SumLen(ks) == IF ks = <<>> THEN 0 ELSE Len(Head(ks)) + SumLen(Tail(ks))

\* lines 260-277: the proposal made for the key tuple k seen occur times
MakeRecordProposal(k, occur) ==
  LET arguments == TakeNames(VariableGenerator(1), Len(k), <<>>)
      mappings  == [n \in DOMAIN k |-> k[n] \o <<":">> \o arguments[n]]
      foreword  ==
        <<"f","u","n","c","t","i","o","n"," ","%","s","(">>
          \o Join(<<",">>, arguments)
          \o <<")","{","r","e","t","u","r","n"," ","{">>
          \o Join(<<",">>, mappings)
          \o <<"}",";","}",";">>
  IN  RecordProposal(saved_record(occur, SumLen(k), Len(k), Len(foreword) - 2),
                     foreword, k)

\* the frequency table of generate_record_proposals, keyed by sorted key tuple
RecordFrequency(struct) ==
  LET dicts == Explore(<<struct>>, TRUE)
  IN  Count([n \in DOMAIN dicts |-> PyTuple(SortTexts(dicts[n].keys))], <<>>)

\* generate_record_proposals(struct, options), the dict walked in the order
\* `order`
generate_record_proposals(struct, options, order) ==
  LET frequency == RecordFrequency(struct)
      made == [n \in DOMAIN order |->
                 MakeRecordProposal(frequency[order[n]].key.items,
                                    frequency[order[n]].count)]
  IN  Ok(SelectSeq(made, LAMBDA proposal : proposal.savings[1] > 0))

---------------------------------------------------------------------------
(* RCFJ.py: rendering *)

SetMin(S) == CHOOSE x \in S : \A y \in S : x <= y

RECURSIVE Format(_, _, _)
\* template % variable for one string argument: %s takes the argument, %%
\* is a percent sign, any other conversion is a ValueError; used is whether
\* the argument has been taken.  The template is cut at its percent signs.
Format(template, variable, used) ==
  LET marks == {k \in DOMAIN template : template[k] = "%"}
      m     == SetMin(marks)
      rest  == Format(SubSeq(template, m + 2, Len(template)), variable,
                      used \/ template[m + 1] = "s")
  IN  IF marks = {}
        THEN (IF used THEN Ok(template) ELSE Raise("TypeError"))
      ELSE IF m = Len(template) THEN Raise("ValueError")
      ELSE IF template[m + 1] = "s" /\ used THEN Raise("TypeError")
      ELSE IF template[m + 1] \notin {"s", "%"} THEN Raise("ValueError")
      ELSE IF rest.exc # "none" THEN rest
      ELSE Ok(SubSeq(template, 1, m - 1)
                \o (IF template[m + 1] = "s" THEN variable ELSE <<"%">>)
                \o rest.val)

\* Proposal.get_foreword
get_foreword(proposal) == Format(proposal.foreword, proposal.variable, FALSE)

\* proposal.applies(struct), None counted as false
applies(proposal, struct) ==
  CASE proposal.kind = "SymbolizedLiteralProposal" ->
         PyEq(struct, proposal.value)
    [] proposal.kind = "RecordProposal" ->
         /\ struct.tag = "dict"
         /\ SortTexts(struct.keys) = proposal.keys

\* struct[key] of a dict
Lookup(struct, key) ==
  struct.vals[CHOOSE k \in DOMAIN struct.keys : struct.keys[k] = key]

RECURSIVE writeJSON(_, _, _)
writeJSON(struct, proposalList, options) ==
  LET opts == IF options.none THEN get_default_options ELSE options
      hits == {k \in DOMAIN proposalList : applies(proposalList[k], struct)}
  IN  IF hits # {}
        THEN LET proposal == proposalList[CHOOSE k \in hits : \A j \in hits : k <= j]
             IN  IF proposal.kind = "SymbolizedLiteralProposal"
                   THEN Ok(proposal.variable)
                 ELSE \* RecordProposal.apply
                   LET keys == SortTexts(struct.keys)
                       args == Gather([n \in DOMAIN keys |->
                                 writeJSON(Lookup(struct, keys[n]), proposalList, opts)])
                   IN  IF args.exc # "none" THEN args
                       ELSE Ok(proposal.variable \o <<"(">>
                                 \o Join(<<",">>, args.val) \o <<")">>)
      ELSE IF struct.tag = "dict"
        THEN LET temp == Gather([n \in DOMAIN struct.keys |->
                           writeJSON(struct.vals[n], proposalList, opts)])
             IN  IF temp.exc # "none" THEN temp
                 ELSE Ok(<<"{">>
                        \o Join(<<",">>,
                             [n \in DOMAIN struct.keys |->
                                IF opts.keysAreStrings
                                  THEN <<"\"">> \o struct.keys[n] \o <<"\"", ":">>
                                         \o temp.val[n]
                                ELSE struct.keys[n] \o <<":">> \o temp.val[n]])
                        \o <<"}">>)
      ELSE IF struct.tag = "list"
        THEN LET temp == Gather([n \in DOMAIN struct.items |->
                           writeJSON(struct.items[n], proposalList, opts)])
             IN  IF temp.exc # "none" THEN temp
                 ELSE Ok(<<"[">> \o Join(<<",">>, temp.val) \o <<"]">>)
      ELSE IF struct.tag = "JavascriptExpression"
        THEN Ok(struct.val)
      ELSE optimal(struct, opts)

---------------------------------------------------------------------------
(* assign_proposals_greedy called on lists of candidates *)

MaxCands == 2        \* longest small candidate list
MaxSaving == 1       \* savings of the small candidates range over -1..MaxSaving
DupCands == 3510     \* a list long enough to use the generator's last row
ExhaustCands == 3575 \* a list longer than the generator's supply

\* a candidate with savings s1 at length 1 and s2 at length 2
Candidate(s1, s2) ==
  Proposal("Proposal", <<s1, s2, s2>>, <<>>, PyNone, <<>>)

\* a candidate worth assigning at either length, ahead of the small ones
GoodCandidate == Candidate(MaxSaving + 2, MaxSaving + 1)

SmallCandidateLists ==
  UNION { { [k \in 1..n |-> Candidate(s[k][1], s[k][2])] :
            s \in [1..n -> (-1..MaxSaving) \X (-1..MaxSaving)] } :
          n \in 0..MaxCands }

\* candidates enough to use up the one-character names, then a small list
\* left to the second loop
MidCandidateLists ==
  {[k \in 1..Len(VARIABLE_START) |-> GoodCandidate] \o tail :
     tail \in SmallCandidateLists}

\* n candidates worth assigning at either length, one worth a one-character
\* name only, and a last one that is worth none
LongCandidateList(n) ==
  [k \in 1..(n + 2) |->
     IF k <= n THEN GoodCandidate
     ELSE IF k = n + 1 THEN Candidate(1, 0) ELSE Candidate(0, -1)]

CandidateLists ==
  SmallCandidateLists \cup MidCandidateLists
    \cup {LongCandidateList(DupCands), LongCandidateList(ExhaustCands)}

NotInMain ==
  /\ structure = PyNone /\ writer_options = get_default_options
  /\ cli = [symbolization |-> FALSE, records |-> FALSE]
  /\ result = Ok(<<>>) /\ arg = <<>>

InitAssign ==
  /\ pc = "assign"
  /\ proposals \in CandidateLists
  /\ assigned = <<>> /\ idx = 0 /\ g = VariableGenerator(1)
  /\ NotInMain

\* proposals = assign_proposals_greedy(proposals), the locals of the call
\* kept as it ends
CallAssign ==
  /\ pc = "assign"
  /\ LET f == assign_proposals_greedy(proposals)
     IN  /\ pc' = f.pc
         /\ proposals' = f.proposals
         /\ assigned' = f.assigned
         /\ idx' = f.idx
         /\ g' = f.g
  /\ UNCHANGED <<structure, writer_options, cli, result, arg>>

NextAssign == CallAssign

SpecAssign == InitAssign /\ [][NextAssign]_vars

---------------------------------------------------------------------------
(* RCFJ.py run as a program: lines 422-440 *)

OfKind(ps, kind) == SelectSeq(ps, LAMBDA x : x.kind = kind)

\* lines 431-439: the text written for the assigned proposals ps
Output(struct, ps, options, symbolization, records) ==
  LET symbolized == OfKind(ps, "SymbolizedLiteralProposal")
      functions  == OfKind(ps, "RecordProposal")
      fs == Gather([n \in DOMAIN symbolized |-> get_foreword(symbolized[n])])
      ff == Gather([n \in DOMAIN functions |-> get_foreword(functions[n])])
      foreword_symbolizations ==
        IF symbolization
          THEN <<"v","a","r"," ">> \o Join(<<",">>, fs.val) \o <<";">>
        ELSE <<>>
      foreword_functions == IF records THEN Flatten(ff.val) ELSE <<>>
      tree == writeJSON(struct, ps, options)
  IN  IF symbolization /\ fs.exc # "none" THEN Raise(fs.exc)
      ELSE IF records /\ ff.exc # "none" THEN Raise(ff.exc)
      ELSE IF tree.exc # "none" THEN tree
      ELSE IF Len(ps) > 0
        THEN Ok(<<"(","f","u","n","c","t","i","o","n","(",")","{">>
                  \o foreword_symbolizations \o foreword_functions
                  \o <<"r","e","t","u","r","n"," ">> \o tree.val
                  \o <<";","}",")","(",")">>)
      ELSE tree

\* lines 424-428
Generate ==
  /\ pc = "main"
  /\ \E o1 \in IterationOrders(Len(LiteralFrequency(structure))),
        o2 \in IterationOrders(Len(RecordFrequency(structure))) :
       LET lits == IF cli.symbolization
                     THEN generate_symbolized_literal_proposals(
                            structure, writer_options, o1)
                   ELSE Ok(<<>>)
           recs == IF cli.records
                     THEN generate_record_proposals(structure, writer_options, o2)
                   ELSE Ok(<<>>)
       IN  IF lits.exc # "none"
             THEN pc' = "raised" /\ result' = lits /\ proposals' = <<>>
           ELSE /\ pc' = "generated"
                /\ proposals' = lits.val \o recs.val
                /\ result' = result
  /\ UNCHANGED <<structure, writer_options, cli, assigned, idx, g, arg>>

\* line 429: proposals = assign_proposals_greedy(proposals)
Assign ==
  /\ pc = "generated"
  /\ LET f == assign_proposals_greedy(proposals)
     IN  IF f.pc = "raised"
           THEN pc' = "raised" /\ result' = Raise("StopIteration")
                /\ proposals' = proposals
         ELSE pc' = "assigned" /\ proposals' = f.assigned /\ result' = result
  /\ UNCHANGED <<structure, writer_options, cli, assigned, idx, g, arg>>

\* lines 431-440
Emit ==
  /\ pc = "assigned"
  /\ result' = Output(structure, proposals, writer_options,
                      cli.symbolization, cli.records)
  /\ pc' = IF result'.exc # "none" THEN "raised" ELSE "written"
  /\ UNCHANGED <<structure, writer_options, cli, proposals, assigned, idx, g,
                 arg>>

MaxRep == 3   \* an input array is up to MaxRep copies of one element, then
              \* up to MaxRep copies of another

\* a key long enough for two objects to be worth a function
LongKey ==
  <<"a","b","c","d","e","f","g","h","i","j","k","l","m","n","o","p","q","r","s","t","u","v",
     "w","x","y","z","a","b","c","d">>

Repeat(e, n) == [k \in 1..n |-> e]

MainElements ==
  {PyNone, PyBool(TRUE), PyNumber(IntOf(1)), PyStr(<<"a">>), PyStr(<<"a", "b">>),
   PyDict(<<LongKey>>, <<PyNumber(IntOf(1))>>), PyDict(<<LongKey>>, <<PyNone>>),
   PyDict(<<LongKey>>, <<PyStr(<<"a", "b">>)>>)}

\* [1,1,1,"a","a","a"]
Scenario9 ==
  PyList(Repeat(PyNumber(IntOf(1)), 3) \o Repeat(PyStr(<<"a">>), 3))

\* [{"x":1,"y":2},{"x":3,"y":4}]
Scenario10 ==
  PyList(<<PyDict(<< <<"x">>, <<"y">> >>, <<PyNumber(IntOf(1)), PyNumber(IntOf(2))>>),
           PyDict(<< <<"x">>, <<"y">> >>, <<PyNumber(IntOf(3)), PyNumber(IntOf(4))>>)>>)

\* the trees json.load hands to the program
MainTrees ==
  MainElements
    \cup {PyList(Repeat(e1, n) \o Repeat(e2, m)) :
            e1 \in MainElements, e2 \in MainElements, n \in 0..MaxRep, m \in 0..MaxRep}
    \cup {Scenario9, Scenario10}

\* writer_options after lines 411-418, for every choice of -x, -s, -b
WriterOptions ==
  {[none |-> FALSE, keysAreStrings |-> k, allowHex |-> x, allowBooleanNumbers |-> b] :
     k \in BOOLEAN, x \in BOOLEAN, b \in BOOLEAN}

Init ==
  /\ pc = "main"
  /\ structure \in MainTrees
  /\ writer_options \in WriterOptions
  /\ cli \in [symbolization : BOOLEAN, records : BOOLEAN]
  /\ proposals = <<>> /\ assigned = <<>> /\ idx = 0 /\ g = VariableGenerator(1)
  /\ result = Ok(<<>>) /\ arg = <<>>

Next ==
  \/ Generate
  \/ Assign
  \/ Emit

Spec == Init /\ [][Next]_vars

---------------------------------------------------------------------------
(* The functions of RCFJ.py called on value trees *)

\* 2**63, which json.load reads as a long
TwoTo63 == PyInt(FALSE, maxintPlus1)

ApiScalars ==
  {PyNone, PyBool(TRUE), PyBool(FALSE), PyNumber(IntOf(0)), PyNumber(IntOf(-1)),
   PyNumber(IntOf(1000)), PyNumber(IntOf(1500000)), PyNumber(TwoTo63),
   PyStr(<<>>), PyStr(<<"a", "\"", "\\", "\n">>),
   JavascriptExpression(1, <<"M","a","t","h",".","P","I">>)}

ApiKeys == {<<"x">>, <<"y">>, <<"a", "\"", "b">>, <<"\\">>, <<"\n">>}

MaxItems == 2   \* longest list, and most keys of a dict, in these trees

ListsOver(elements) ==
  UNION {{PyList(items) : items \in [1..n -> elements]} : n \in 0..MaxItems}

DictsOver(elements) ==
  UNION {{PyDict(ks, vs) :
            ks \in {q \in [1..n -> ApiKeys] : \A j, k \in 1..n : q[j] = q[k] => j = k},
            vs \in [1..n -> elements]} : n \in 0..MaxItems}

ApiFlat == ListsOver(ApiScalars) \cup DictsOver({PyNone, PyNumber(IntOf(1000))})

ApiNested ==
  {PyList(<<t>>) : t \in ApiFlat} \cup {PyDict(<< <<"x">> >>, <<t>>) : t \in ApiFlat}

ApiTrees == ApiScalars \cup ApiFlat \cup ApiNested

InitApi ==
  /\ pc = "api"
  /\ structure \in ApiTrees
  /\ writer_options = get_default_options
  /\ cli = [symbolization |-> FALSE, records |-> FALSE]
  /\ proposals = <<>> /\ assigned = <<>> /\ idx = 0 /\ g = VariableGenerator(1)
  /\ result = Ok(<<>>) /\ arg = <<>>

\* writeJSON(structure, [])
CallWriteJSON ==
  /\ pc = "api"
  /\ result' = writeJSON(structure, <<>>, NoneOptions)
  /\ pc' = "writeJSON"
  /\ UNCHANGED <<structure, writer_options, cli, proposals, assigned, idx, g, arg>>

\* generate_symbolized_literal_proposals(structure)
CallGenerateSymbolized ==
  /\ pc = "api"
  /\ \E order \in IterationOrders(Len(LiteralFrequency(structure))) :
       result' = generate_symbolized_literal_proposals(
                   structure, get_default_options, order)
  /\ pc' = "generate_symbolized_literal_proposals"
  /\ UNCHANGED <<structure, writer_options, cli, proposals, assigned, idx, g, arg>>

\* generate_record_proposals(structure)
CallGenerateRecords ==
  /\ pc = "api"
  /\ \E order \in IterationOrders(Len(RecordFrequency(structure))) :
       result' = generate_record_proposals(structure, get_default_options, order)
  /\ pc' = "generate_record_proposals"
  /\ UNCHANGED <<structure, writer_options, cli, proposals, assigned, idx, g, arg>>

NextApi ==
  \/ CallWriteJSON
  \/ CallGenerateSymbolized
  \/ CallGenerateRecords

SpecApi == InitApi /\ [][NextApi]_vars

---------------------------------------------------------------------------
(* LiteralOptimizers.optimal_int called on integers *)

MaxMantissa == 12   \* leading part of an input integer
MaxZeros == 20      \* zeros that follow it
MaxLow == 1         \* last digit, in place of the last zero

\* m * 10**z + low
Compose(m, z, low) ==
  IF m = 0 THEN NatDigits(low)
  ELSE NatDigits(m) \o [k \in 1..z |-> IF k = z THEN low ELSE 0]

IntInputs ==
  {PyInt(neg /\ Compose(m, z, low) # <<0>>, Compose(m, z, low)) :
     neg \in BOOLEAN, m \in 0..MaxMantissa, z \in 0..MaxZeros, low \in 0..MaxLow}

InitInt ==
  /\ pc = "optimal_int"
  /\ arg \in [i : IntInputs, allowHex : BOOLEAN]
  /\ structure = PyNone /\ writer_options = get_default_options
  /\ cli = [symbolization |-> FALSE, records |-> FALSE]
  /\ proposals = <<>> /\ assigned = <<>> /\ idx = 0 /\ g = VariableGenerator(1)
  /\ result = Ok(<<>>)

CallOptimalInt ==
  /\ pc = "optimal_int"
  /\ result' = Ok(optimal_int(arg.i, arg.allowHex))
  /\ pc' = "formatted"
  /\ UNCHANGED <<structure, writer_options, cli, proposals, assigned, idx, g, arg>>

NextInt == CallOptimalInt

SpecInt == InitInt /\ [][NextInt]_vars

---------------------------------------------------------------------------
(* LiteralOptimizers.optimal_boolean, optimal_null and optimal called on   *)
(* scalars *)

\* the options argument of optimal: a dictionary of options, or None
OptionsArguments == WriterOptions \cup {NoneOptions}

InitLiteral ==
  /\ pc = "literal"
  /\ arg \in [struct : ApiScalars, options : OptionsArguments,
              allowBooleanNumbers : BOOLEAN]
  /\ structure = PyNone /\ writer_options = get_default_options
  /\ cli = [symbolization |-> FALSE, records |-> FALSE]
  /\ proposals = <<>> /\ assigned = <<>> /\ idx = 0 /\ g = VariableGenerator(1)
  /\ result = Ok(<<>>)

CallOptimalBoolean ==
  /\ pc = "literal" /\ arg.struct.tag = "bool"
  /\ result' = Ok(optimal_boolean(arg.struct.b, arg.allowBooleanNumbers))
  /\ pc' = "optimal_boolean"
  /\ UNCHANGED <<structure, writer_options, cli, proposals, assigned, idx, g, arg>>

CallOptimalNull ==
  /\ pc = "literal"
  /\ result' = Ok(optimal_null(arg.struct))
  /\ pc' = "optimal_null"
  /\ UNCHANGED <<structure, writer_options, cli, proposals, assigned, idx, g, arg>>

CallOptimal ==
  /\ pc = "literal"
  /\ result' = optimal(arg.struct, arg.options)
  /\ pc' = "optimal"
  /\ UNCHANGED <<structure, writer_options, cli, proposals, assigned, idx, g, arg>>

NextLiteral == CallOptimalBoolean \/ CallOptimalNull \/ CallOptimal

SpecLiteral == InitLiteral /\ [][NextLiteral]_vars

---------------------------------------------------------------------------
(* VariableGenerator run alone, one next() at a time *)

MaxLength == 2   \* longest names asked of a generator

\* g = VariableGenerator(length), before its first next(); idx counts the
\* names yielded so far
InitGenerator ==
  /\ pc = "generator"
  /\ \E length \in 1..MaxLength : g = VariableGenerator(length)
  /\ idx = 0 /\ result = Ok(<<>>)
  /\ structure = PyNone /\ writer_options = get_default_options
  /\ cli = [symbolization |-> FALSE, records |-> FALSE]
  /\ proposals = <<>> /\ assigned = <<>> /\ arg = <<>>

\* g.next(): the next name, or StopIteration once the generator has returned
CallNext ==
  /\ pc \in {"generator", "yielded"}
  /\ LET n == GenNext(g)
     IN  /\ g' = n.gen
         /\ pc' = IF n.stop THEN "exhausted" ELSE "yielded"
         /\ idx' = IF n.stop THEN idx ELSE idx + 1
         /\ result' = IF n.stop THEN Raise("StopIteration") ELSE Ok(n.name)
  /\ UNCHANGED <<structure, writer_options, cli, proposals, assigned, arg>>

NextGenerator == CallNext

SpecGenerator == InitGenerator /\ [][NextGenerator]_vars

---------------------------------------------------------------------------
(* Reading a text back as a JavaScript literal: the evaluator the round    *)
(* trip properties are stated with.  It reads null, true, false, numbers   *)
(* (decimal, mantissa e exponent, 0x hexadecimal), double-quoted strings,  *)
(* arrays, and objects with double-quoted keys.                            *)

NoParse == [ok |-> FALSE, val |-> PyNone, next |-> 0]
Parsed(v, next) == [ok |-> TRUE, val |-> v, next |-> next]

IndexOf(seq, c) == CHOOSE k \in DOMAIN seq : seq[k] = c
AllIn(seq, chars) == \A k \in DOMAIN seq : \E j \in DOMAIN chars : chars[j] = seq[k]

RECURSIVE MulAdd(_, _, _)
\* the decimal digits of ds * m + carry, for a small m
MulAdd(ds, m, carry) ==
  IF ds = <<>> THEN (IF carry = 0 THEN <<>> ELSE NatDigits(carry))
  ELSE LET cur == ds[Len(ds)] * m + carry
       IN  Append(MulAdd(SubSeq(ds, 1, Len(ds) - 1), m, cur \div 10), cur % 10)

RECURSIVE FromBase16(_, _)
\* the decimal digits of the number whose base-16 digits are the characters hs
FromBase16(hs, acc) ==
  IF hs = <<>> THEN StripZeros(acc)
  ELSE FromBase16(Tail(hs), MulAdd(acc, 16, IndexOf(HexChars, Head(hs)) - 1))

RECURSIVE SmallNumber(_, _)
SmallNumber(cs, acc) ==
  IF cs = <<>> THEN acc
  ELSE SmallNumber(Tail(cs), acc * 10 + IndexOf(DigitChars, Head(cs)) - 1)

DigitsOf(cs) == StripZeros([k \in DOMAIN cs |-> IndexOf(DigitChars, cs[k]) - 1])

\* The integer a numeric token denotes, or no parse
ParseNumber(tok) ==
  LET neg  == tok # <<>> /\ tok[1] = "-"
      body == IF neg THEN Tail(tok) ELSE tok
      es   == {k \in DOMAIN body : body[k] = "e"}
      e    == CHOOSE k \in es : TRUE
      mant == SubSeq(body, 1, e - 1)
      expo == SubSeq(body, e + 1, Len(body))
      Num(ds) == PyInt(neg /\ ds # <<0>>, ds)
  IN  IF body = <<>> THEN NoParse
      ELSE IF Len(body) > 2 /\ body[1] = "0" /\ body[2] = "x"
        THEN IF AllIn(SubSeq(body, 3, Len(body)), HexChars)
               THEN Parsed(Num(FromBase16(SubSeq(body, 3, Len(body)), <<0>>)), 0)
             ELSE NoParse
      ELSE IF AllIn(body, DigitChars) THEN Parsed(Num(DigitsOf(body)), 0)
      ELSE IF /\ Cardinality(es) = 1 /\ mant # <<>> /\ expo # <<>>
              /\ AllIn(mant, DigitChars) /\ AllIn(expo, DigitChars)
        THEN Parsed(Num(StripZeros(DigitsOf(mant)
                          \o [k \in 1..SmallNumber(expo, 0) |-> 0])), 0)
      ELSE NoParse

RECURSIVE Unescape(_)
\* the string a string literal's body denotes, cut at its backslashes
Unescape(body) ==
  LET marks == {k \in DOMAIN body : body[k] = "\\"}
      m     == SetMin(marks)
      c     == body[m + 1]
      rest  == Unescape(SubSeq(body, m + 2, Len(body)))
  IN  IF marks = {} THEN Parsed(body, 0)
      ELSE IF m = Len(body) \/ c \notin {"\"", "\\", "n", "r", "t"} \/ ~ rest.ok
        THEN NoParse
      ELSE Parsed(SubSeq(body, 1, m - 1)
                    \o <<CASE c = "n" -> "\n" [] c = "r" -> "\r"
                           [] c = "t" -> "\t" [] OTHER -> c>>
                    \o rest.val, 0)

\* The string literal that starts at the double quote text[pos].  Its closing
\* quote is the first one preceded by an even number of backslashes; a raw
\* control character inside it is an error.
ParseString(text, pos) ==
  LET Escaped(k) ==
        \E j \in pos..(k - 1) :
          /\ \A i \in (j + 1)..(k - 1) : text[i] = "\\"
          /\ text[j] # "\\" /\ (k - 1 - j) % 2 = 1
      closers == {k \in (pos + 1)..Len(text) : text[k] = "\"" /\ ~ Escaped(k)}
      close   == SetMin(closers)
      body    == SubSeq(text, pos + 1, close - 1)
      u       == Unescape(body)
  IN  IF closers = {} THEN NoParse
      ELSE IF \E k \in DOMAIN body : body[k] \in {"\n", "\r", "\t"} THEN NoParse
      ELSE IF ~ u.ok THEN NoParse
      ELSE Parsed(u.val, close + 1)

Starts(text, pos, word) ==
  /\ pos + Len(word) - 1 <= Len(text)
  /\ SubSeq(text, pos, pos + Len(word) - 1) = word

NumberChars == HexChars \o <<"x", "L", "-", "+", ".", "E">>

RECURSIVE ParseValue(_, _)
RECURSIVE ParseItems(_, _, _)
RECURSIVE ParseMembers(_, _, _, _)

\* The value that starts at text[pos]; next is the position after it
ParseValue(text, pos) ==
  IF pos > Len(text) THEN NoParse
  ELSE IF Starts(text, pos, <<"n","u","l","l">>) THEN Parsed(PyNone, pos + 4)
  ELSE IF Starts(text, pos, <<"t","r","u","e">>) THEN Parsed(PyBool(TRUE), pos + 4)
  ELSE IF Starts(text, pos, <<"f","a","l","s","e">>)
    THEN Parsed(PyBool(FALSE), pos + 5)
  ELSE IF text[pos] = "\""
    THEN LET str == ParseString(text, pos)
         IN  IF str.ok THEN Parsed(PyStr(str.val), str.next) ELSE NoParse
  ELSE IF text[pos] = "["
    THEN IF Starts(text, pos, <<"[", "]">>) THEN Parsed(PyList(<<>>), pos + 2)
         ELSE ParseItems(text, pos + 1, <<>>)
  ELSE IF text[pos] = "{"
    THEN IF Starts(text, pos, <<"{", "}">>) THEN Parsed(PyDict(<<>>, <<>>), pos + 2)
         ELSE ParseMembers(text, pos + 1, <<>>, <<>>)
  ELSE LET ends == {k \in pos..Len(text) : ~ AllIn(<<text[k]>>, NumberChars)}
           stop == IF ends = {} THEN Len(text) + 1 ELSE SetMin(ends)
           num  == ParseNumber(SubSeq(text, pos, stop - 1))
       IN  IF num.ok THEN Parsed(PyNumber(num.val), stop) ELSE NoParse

\* the rest of an array whose next element starts at text[pos]
ParseItems(text, pos, items) ==
  LET v == ParseValue(text, pos)
  IN  IF ~ v.ok \/ v.next > Len(text) THEN NoParse
      ELSE IF text[v.next] = "]"
        THEN Parsed(PyList(Append(items, v.val)), v.next + 1)
      ELSE IF text[v.next] = ","
        THEN ParseItems(text, v.next + 1, Append(items, v.val))
      ELSE NoParse

\* the rest of an object whose next key starts at text[pos]
ParseMembers(text, pos, keys, vals) ==
  LET k == IF pos <= Len(text) /\ text[pos] = "\"" THEN ParseString(text, pos)
           ELSE NoParse
      v == IF k.ok /\ k.next <= Len(text) /\ text[k.next] = ":"
             THEN ParseValue(text, k.next + 1)
           ELSE NoParse
  IN  IF ~ v.ok \/ v.next > Len(text) THEN NoParse
      ELSE IF text[v.next] = "}"
        THEN Parsed(PyDict(Append(keys, k.val), Append(vals, v.val)), v.next + 1)
      ELSE IF text[v.next] = ","
        THEN ParseMembers(text, v.next + 1, Append(keys, k.val), Append(vals, v.val))
      ELSE NoParse

\* the whole text read as one literal
Evaluate(text) ==
  LET v == ParseValue(text, 1)
  IN  IF v.ok /\ v.next = Len(text) + 1 THEN v ELSE NoParse

---------------------------------------------------------------------------
(* Properties *)

Contains(text, word) == \E k \in 1..Len(text) : Starts(text, k, word)

RECURSIVE IsJSON(_)
\* a tree of nulls, booleans, integers, strings, arrays and objects
IsJSON(tree) ==
  CASE tree.tag = "list" -> \A k \in DOMAIN tree.items : IsJSON(tree.items[k])
    [] tree.tag = "dict" -> \A k \in DOMAIN tree.vals : IsJSON(tree.vals[k])
    [] OTHER -> tree.tag \in {"None", "bool", "int", "unicode"}

RECURSIVE WordSized(_)
\* no integer of the tree is a Python long
WordSized(tree) ==
  CASE tree.tag = "list" -> \A k \in DOMAIN tree.items : WordSized(tree.items[k])
    [] tree.tag = "dict" -> \A k \in DOMAIN tree.vals : WordSized(tree.vals[k])
    [] tree.tag = "int" -> ~ IsLong(tree.i)
    [] OTHER -> TRUE

\* the text writeJSON gives for the tree with no proposals
Naive == writeJSON(structure, <<>>, writer_options)

\* C1: the identifiers in the list assign_proposals_greedy returns are
\* pairwise distinct, for a candidate list of any size.
C1_IdentifiersDistinct ==
  pc = "returned" =>
    Cardinality({assigned[k].variable : k \in DOMAIN assigned}) = Len(assigned)

\* C2: with no proposals and default options, the text writeJSON gives for a
\* tree of nulls, booleans, integers, strings, arrays and objects reads back
\* as a value equal to the tree (checked here on the trees whose integers
\* fit a machine word).
C2_RoundTrip ==
  (pc = "writeJSON" /\ IsJSON(structure) /\ WordSized(structure)) =>
    /\ result.exc = "none"
    /\ Evaluate(result.val).ok
    /\ Evaluate(result.val).val = structure

\* C3: the text optimal_int(i, allowHex) returns reads back, as a JavaScript
\* numeric literal, as exactly i.
C3_IntRoundTrip ==
  pc = "formatted" =>
    /\ ParseNumber(result.val).ok
    /\ ParseNumber(result.val).val = arg.i

\* C4: assign_proposals_greedy ends by returning, also when the candidates
\* outnumber the identifiers: it never leaves by an exception.
C4_ExhaustionReturns ==
  pc \in {"returned", "raised"} => pc = "returned"

\* C5: the two generators return a list for every tree, InjectedExpression
\* nodes included, and optimal is never handed an Array, an Object or an
\* InjectedExpression (it is handed the keys of the frequency table);
\* checked here on the trees whose integers fit a machine word.
C5_GenerationTotal ==
  ( /\ pc \in {"generate_symbolized_literal_proposals",
               "generate_record_proposals"}
    /\ WordSized(structure) ) =>
    /\ result.exc = "none"
    /\ \A k \in DOMAIN LiteralFrequency(structure) :
         LiteralFrequency(structure)[k].key.tag
           \notin {"list", "dict", "JavascriptExpression"}

\* the declarators of the assigned literal substitutions, name=literal
Declarators ==
  LET symbolized == OfKind(proposals, "SymbolizedLiteralProposal")
  IN  [n \in DOMAIN symbolized |-> get_foreword(symbolized[n]).val]

\* C6: the output is the rendered tree alone when nothing was assigned, and
\* otherwise the function wrapper, whose var statement is there only with
\* one declarator per assigned literal substitution: never `var ;`.
C6_WellFormedOutput ==
  pc = "written" =>
    IF proposals = <<>> THEN result.val = Naive.val
    ELSE /\ Starts(result.val, 1, <<"(","f","u","n","c","t","i","o","n","(",")","{">>)
         /\ Starts(result.val, Len(result.val) - 4, <<";","}",")","(",")">>)
         /\ ~ Contains(result.val, <<"v","a","r"," ",";">>)
         /\ Declarators # <<>> =>
              Starts(result.val, 13,
                     <<"v","a","r"," ">> \o Join(<<",">>, Declarators) \o <<";">>)

\* C7: whenever a proposal is assigned, the output is no longer than the
\* tree rendered with no proposals.
C7_NeverLonger ==
  (pc = "written" /\ proposals # <<>>) => Len(result.val) <= Len(Naive.val)

\* C8: every proposal in the returned list has positive savings at the
\* length of the identifier it was given.
C8_AssignedSavingsPositive ==
  pc = "returned" =>
    \A k \in DOMAIN assigned :
      assigned[k].savings[Len(assigned[k].variable)] > 0

\* C8's case: a returned list with one-character and two-character
\* identifiers, the second loop having stopped at a candidate not worth one
C8_Witness ==
  /\ pc = "returned"
  /\ \E k \in DOMAIN assigned : Len(assigned[k].variable) = 1
  /\ \E k \in DOMAIN assigned : Len(assigned[k].variable) = 2
  /\ idx < Len(proposals)

IsScenario9 ==
  /\ structure = Scenario9 /\ cli.symbolization
  /\ writer_options = get_default_options

\* C9 as claimed: for [1,1,1,"a","a","a"] with symbolization, two literal
\* substitutions (for 1 and for "a") are assigned one-character identifiers
\* and the output is wrapped in the function.
C9_Original ==
  (IsScenario9 /\ pc = "written") =>
    /\ Len(proposals) = 2
    /\ {proposals[k].value : k \in DOMAIN proposals}
         = {PyNumber(IntOf(1)), PyStr(<<"a">>)}
    /\ \A k \in DOMAIN proposals :
         /\ proposals[k].kind = "SymbolizedLiteralProposal"
         /\ Len(proposals[k].variable) = 1
    /\ Starts(result.val, 1, <<"(","f","u","n","c","t","i","o","n","(",")","{">>)

\* C9 amended: for [1,1,1,"a","a","a"] with symbolization and default
\* options no proposal is generated (savings(1) is -4 for 1 and 0 for "a"),
\* none is assigned, and the output is the plain rendering, not wrapped.
C9_NoProposals ==
  IsScenario9 =>
    /\ pc \in {"generated", "assigned", "written"} => proposals = <<>>
    /\ pc # "raised"
    /\ pc = "written" =>
         result.val = 
           <<"[","1",",","1",",","1",",","\"","a","\"",",","\"","a","\"",",",
             "\"","a","\"","]">>

C9_Witness == IsScenario9 /\ pc = "written"

IsScenario10 == structure = Scenario10 /\ cli.records

C11_FixedTexts ==
  /\ pc = "optimal_boolean" =>
       result.val =
         (CASE arg.struct.b /\ ~ arg.allowBooleanNumbers -> <<"t","r","u","e">>
            [] ~ arg.struct.b /\ ~ arg.allowBooleanNumbers -> <<"f","a","l","s","e">>
            [] arg.struct.b /\ arg.allowBooleanNumbers -> <<"1">>
            [] ~ arg.struct.b /\ arg.allowBooleanNumbers -> <<"0">>)
  /\ pc = "optimal_null" => result = Ok(<<"n","u","l","l">>)
  /\ (pc = "optimal" /\ arg.struct = PyNone) => result = Ok(<<"n","u","l","l">>)

\* C11's case: optimal(None, None) has returned
C11_Witness ==
  pc = "optimal" /\ arg.struct = PyNone /\ arg.options.none

\* the place of c in an alphabet, from 0
PlaceIn(alphabet, c) == (CHOOSE k \in DOMAIN alphabet : alphabet[k] = c) - 1

RECURSIVE Power(_, _)
Power(b, e) == IF e = 0 THEN 1 ELSE b * Power(b, e - 1)

\* how many strings of this length the two alphabets make
AllNames(length) == Len(VARIABLE_START) * Power(Len(VARIABLE_MID), length - 1)

\* the place of a string in odometer order, from 0
RECURSIVE OdometerRank(_, _, _)
OdometerRank(name, k, acc) ==
  IF k > Len(name) THEN acc
  ELSE OdometerRank(name, k + 1,
         IF k = 1 THEN PlaceIn(VARIABLE_START, name[1])
         ELSE acc * Len(VARIABLE_MID) + PlaceIn(VARIABLE_MID, name[k]))

\* the string at place r of odometer order
OdometerName(length, r) ==
  [k \in 1..length |->
     LET digit == (r \div Power(Len(VARIABLE_MID), length - k))
                    % (IF k = 1 THEN Len(VARIABLE_START) ELSE Len(VARIABLE_MID))
     IN  IF k = 1 THEN VARIABLE_START[digit + 1] ELSE VARIABLE_MID[digit + 1]]

ReservedRanks(length) ==
  {OdometerRank(w, 1, 0) : w \in {x \in keywords : Len(x) = length}}

\* the n-th item, from 1, of the reference enumeration: odometer order with
\* the reserved words of that length left out
ReferenceItem(length, n) ==
  LET reserved == ReservedRanks(length)
      r == CHOOSE p \in (n - 1)..(n - 1 + Cardinality(reserved)) :
             /\ p \notin reserved
             /\ p - Cardinality({q \in reserved : q < p}) = n - 1
  IN  OdometerName(length, r)

\* C12: the names VariableGenerator(L) yields are the reference enumeration,
\* item by item from the string of first symbols on, and the generator is
\* exhausted after 54*64^(L-1) minus reserved-of-length-L names.
C12_ReferenceEnumeration ==
  /\ pc = "yielded" => result.val = ReferenceItem(g.length, idx)
  /\ pc = "exhausted" =>
       idx = AllNames(g.length) - Cardinality(ReservedRanks(g.length))

\* the scalar nodes of the tree, as the walk of lines 197-208 meets them
Scalars == Explore(<<structure>>, FALSE)

\* C13: the frequency table counts each scalar with the nodes of its own tag
\* and value only (true apart from 1, false apart from 0), and an assigned
\* literal substitution applies to a scalar node only if the node has the
\* tag and the value of the proposal's value.
C13_ExactMatching ==
  /\ (cli.symbolization /\ pc \in {"generated", "assigned", "written"}) =>
       \A k \in DOMAIN LiteralFrequency(structure) :
         LiteralFrequency(structure)[k].count
           = Cardinality({n \in DOMAIN Scalars :
                            Scalars[n] = LiteralFrequency(structure)[k].key})
  /\ pc = "written" =>
       \A k \in DOMAIN proposals : \A n \in DOMAIN Scalars :
         (/\ proposals[k].kind = "SymbolizedLiteralProposal"
          /\ applies(proposals[k], Scalars[n]))
           => Scalars[n] = proposals[k].value

====
